---- MODULE Spec2Model ----
(***************************************************************************)
(* Model of the Reflectly journal client: the App view component           *)
(* (frontend/src/App.tsx, second definition of App, lines 185-357) and    *)
(* the API client it calls (analyzeJournalEntry / getCopingSuggestion).    *)
(*                                                                         *)
(* Every synchronous segment of handleAnalyze (the code between two        *)
(* awaits) is one action: JavaScript runs it to completion and React       *)
(* commits the batched state updates before the next event is handled.     *)
(* Strings the code inspects (the journal text) are sequences of           *)
(* characters; messages are sequences of string pieces (the pieces of a    *)
(* template literal); a nullable value is a sequence of length 0 or 1.     *)
(***************************************************************************)
EXTENDS Integers, Sequences, FiniteSets, TLC

\* ---------------------------------------------------------------- bounds
MaxLen == 2           \* longest journal text typed into the textarea
MaxOverlap == 2       \* invocations of handleAnalyze between two idle moments

\* ------------------------------------------------------------ value sets
Chars == {" ", "a"}
Whitespace == {" "}

RECURSIVE SeqsUpTo(_)
SeqsUpTo(n) ==
  IF n = 0 THEN {<<>>}
  ELSE LET S == SeqsUpTo(n - 1)
       IN  S \cup {Append(s, ch) : s \in {x \in S : Len(x) = n - 1}, ch \in Chars}

Texts == SeqsUpTo(MaxLen)

Pages == {"home", "about"}

Null == <<>>
Some(v) == <<v>>

\* HTTP statuses a backend answers with, and their reason phrases
Statuses == {200, 500}
StatusStr(s) == IF s = 200 THEN "200" ELSE "500"
StatusText(s) == IF s = 200 THEN "OK" ELSE "Internal Server Error"

\* bodies res.text() can yield for a failed /predict
ErrorTexts == {"", "model not loaded"}

\* AnalyzeResponse values res.json() can yield for /predict (the two fields
\* the view reads, plus the score); Null is the JSON body `null`
AnalyzeResponses ==
  { [primary_emotion |-> "anxiety", stress_level |-> "high", stress_score |-> 82],
    [primary_emotion |-> "joy", stress_level |-> "low", stress_score |-> 10] }
PredictJsonBodies == {Null} \cup {Some(d) : d \in AnalyzeResponses}

\* values res.json() can yield for /coping; Null is the JSON body `null`
CopingResponses ==
  { [coping_text |-> "Try a short breathing exercise."],
    [coping_text |-> "Keep it up."] }
CopingJsonBodies == {Null} \cup {Some(c) : c \in CopingResponses}

\* messages of the conditions the runtime throws
FetchFailedMsg == <<"Failed to fetch">>          \* TypeError of fetch
SyntaxErrorMsg == <<"Unexpected token < in JSON">> \* SyntaxError of res.json()
NullDerefMsg == <<"Cannot read properties of null">> \* TypeError of data.x
NoMsg == <<>>                                    \* an error whose message is ""
RejectMessages == {FetchFailedMsg, NoMsg}
BodyRejectMessages == {SyntaxErrorMsg, NoMsg}

\* messages the repository's code builds
ValidationMsg == <<"Please write a short journal entry first.">>
GenericMsg == <<"Something went wrong. Please try again.">>
CopingFailedMsg == <<"Failed to get coping suggestions">>

\* ------------------------------------------------------- pure functions
\* String.prototype.trim on the journal text
RECURSIVE TrimLeft(_)
TrimLeft(s) ==
  IF s # <<>> /\ Head(s) \in Whitespace THEN TrimLeft(Tail(s)) ELSE s

RECURSIVE TrimRight(_)
TrimRight(s) ==
  IF s # <<>> /\ s[Len(s)] \in Whitespace
  THEN TrimRight(SubSeq(s, 1, Len(s) - 1)) ELSE s

NoTrim(s) == s

Trim(s) == TrimRight(TrimLeft(s))

\* res.ok
ResOkNoUpperBound(status) == status >= 200

ResOk(status) == status >= 200 /\ status <= 299

\* `API error ${res.status}: ${errorText || res.statusText}`
ApiErrorMessage(status, errorText) ==
  <<"API error ", StatusStr(status), ": ",
    IF errorText # "" THEN errorText ELSE StatusText(status)>>

\* JSON.stringify({ text })
PredictBodyTrimmed(t) == [text |-> Trim(t)]

PredictBody(t) == [text |-> t]

\* { journal: text, primary_emotion: data.primary_emotion, stress_level: data.stress_level }
CopingBody(journal, data) ==
  [journal |-> journal,
   primary_emotion |-> data.primary_emotion,
   stress_level |-> data.stress_level]

\* err.message || "Something went wrong. Please try again."
ErrorMessageAlwaysGeneric(m) == GenericMsg

ErrorMessage(m) == IF m # <<>> THEN m ELSE GenericMsg

\* ----------------------------------------------------------------- state
VARIABLES
  text,        \* useState("")            journal text in the textarea
  loading,     \* useState(false)
  error,       \* useState<string | null>(null)
  result,      \* useState<AnalyzeResponse | null>(null)
  copingText,  \* useState("")
  page,        \* useState<Page>("home")
  chains,      \* one record per invocation of handleAnalyze, in start order
  requests,    \* every fetch() they issued, with the response it got
  inflight,    \* indexes into requests of the calls not yet settled
  finished     \* ids of the invocations that have returned, in finish order
\* chains, requests and finished hold the invocations started since the
\* component was last idle (no invocation suspended at an await).

vars == <<text, loading, error, result, copingText, page,
          chains, requests, inflight, finished>>

Ids == 1 .. Len(chains)

ActivePcs == {"predictFetch", "predictText", "predictJson",
              "copingFetch", "copingJson"}

Active == {c \in Ids : chains[c].pc \in ActivePcs}

\* a fresh invocation of handleAnalyze: its closure and its position
NewChain(t, pc, outcome, req) ==
  [pc |-> pc,            \* the await the invocation is suspended at, or "done"
   text |-> t,           \* the `text` of the render the handler closes over
   req |-> req,          \* index in requests of the call it is awaiting
   err |-> <<>>,         \* message of the condition the catch block caught
   outcome |-> outcome,  \* the event that ended it, "pending" until then
   overlapped |-> Active # {},  \* started while another had not returned
   stale |-> error # Null /\ result # Null]  \* started over an old error and result

\* fetch(url, { method: "POST", headers, body })
NewRequest(c, url, body) ==
  [chain |-> c, url |-> url, body |-> body,
   status |-> 0,         \* res.status once fetch has resolved
   resp |-> Null]        \* the value res.json() resolved with

Init ==
  /\ text = <<>>
  /\ loading = FALSE
  /\ error = Null
  /\ result = Null
  /\ copingText = ""
  /\ page = "home"
  /\ chains = <<>>
  /\ requests = <<>>
  /\ inflight = {}
  /\ finished = <<>>

\* ------------------------------------------------------------ operations
\* onChange={(e) => setText(e.target.value)}, the textarea of the home page
SetText(t) ==
  /\ page = "home"
  /\ text' = t
  /\ UNCHANGED <<loading, error, result, copingText, page,
                 chains, requests, inflight, finished>>

\* onClick={() => setPage("home")} / onClick={() => setPage("about")}
SetPage(p) ==
  /\ page' = p
  /\ UNCHANGED <<text, loading, error, result, copingText,
                 chains, requests, inflight, finished>>

\* the `text` a running invocation passes on as `journal`
JournalOfLive(c) == text

JournalOf(c) == chains[c].text

\* handleAnalyze up to its first await (or its early return)
handleAnalyzeKeepsError ==
  LET idle == Active = {}
      cs == IF idle THEN <<>> ELSE chains
      rs == IF idle THEN <<>> ELSE requests
      fs == IF idle THEN <<>> ELSE finished
      id == Len(cs) + 1
      r == Len(rs) + 1
  IN
  /\ Len(cs) < MaxOverlap
  /\ result' = Null
  /\ copingText' = ""
  /\ IF Trim(text) = <<>>
     THEN /\ error' = Some(ValidationMsg)
          /\ chains' = Append(cs, NewChain(text, "done", "invalid", 0))
          /\ finished' = Append(fs, id)
          /\ requests' = rs
          /\ UNCHANGED <<loading, inflight>>
     ELSE /\ error' = error
          /\ loading' = TRUE
          /\ requests' = Append(rs, NewRequest(id, "/predict", PredictBody(text)))
          /\ inflight' = inflight \cup {r}
          /\ chains' = Append(cs, NewChain(text, "predictFetch", "pending", r))
          /\ finished' = fs
  /\ UNCHANGED <<text, page>>

handleAnalyze ==
  LET idle == Active = {}
      cs == IF idle THEN <<>> ELSE chains
      rs == IF idle THEN <<>> ELSE requests
      fs == IF idle THEN <<>> ELSE finished
      id == Len(cs) + 1
      r == Len(rs) + 1
  IN
  /\ Len(cs) < MaxOverlap
  /\ result' = Null
  /\ copingText' = ""
  /\ IF Trim(text) = <<>>
     THEN /\ error' = Some(ValidationMsg)
          /\ chains' = Append(cs, NewChain(text, "done", "invalid", 0))
          /\ finished' = Append(fs, id)
          /\ requests' = rs
          /\ UNCHANGED <<loading, inflight>>
     ELSE /\ error' = Null
          /\ loading' = TRUE
          /\ requests' = Append(rs, NewRequest(id, "/predict", PredictBody(text)))
          /\ inflight' = inflight \cup {r}
          /\ chains' = Append(cs, NewChain(text, "predictFetch", "pending", r))
          /\ finished' = fs
  /\ UNCHANGED <<text, page>>

\* disabled={loading} on the analyze button
AnalyzeButtonNeverDisabled == FALSE

AnalyzeButtonDisabled == loading

\* a click on the analyze button, which the home page renders
ClickAnalyze ==
  /\ page = "home"
  /\ ~AnalyzeButtonDisabled
  /\ handleAnalyze

\* a duplicate event that reaches handleAnalyze although the button is disabled
DuplicateSubmit ==
  /\ page = "home"
  /\ AnalyzeButtonDisabled
  /\ handleAnalyze

\* catch (err) { setError(err.message || ...) } finally { setLoading(false) }
\* m is err.message, r the value of `result` the try block has left
CatchClearsResult(c, m, outcome, r) ==
  /\ error' = Some(ErrorMessage(m))
  /\ loading' = FALSE
  /\ result' = Null
  /\ copingText' = copingText
  /\ chains' = [chains EXCEPT ![c].pc = "done", ![c].err = m,
                              ![c].outcome = outcome]
  /\ finished' = Append(finished, c)
  /\ inflight' = inflight \ {chains[c].req}

CatchNoFinally(c, m, outcome, r) ==
  /\ error' = Some(ErrorMessage(m))
  /\ loading' = loading
  /\ result' = r
  /\ copingText' = copingText
  /\ chains' = [chains EXCEPT ![c].pc = "done", ![c].err = m,
                              ![c].outcome = outcome]
  /\ finished' = Append(finished, c)
  /\ inflight' = inflight \ {chains[c].req}

Catch(c, m, outcome, r) ==
  /\ error' = Some(ErrorMessage(m))
  /\ loading' = FALSE
  /\ result' = r
  /\ copingText' = copingText
  /\ chains' = [chains EXCEPT ![c].pc = "done", ![c].err = m,
                              ![c].outcome = outcome]
  /\ finished' = Append(finished, c)
  /\ inflight' = inflight \ {chains[c].req}

\* fetch(`${API_BASE_URL}/predict`, ...) rejects
PredictFetchRejects(c, m) ==
  /\ chains[c].pc = "predictFetch"
  /\ Catch(c, m, "predictThrown", result)
  /\ UNCHANGED <<text, page, requests>>

\* fetch(`${API_BASE_URL}/predict`, ...) resolves with a response
PredictFetchResolves(c, status) ==
  /\ chains[c].pc = "predictFetch"
  /\ requests' = [requests EXCEPT ![chains[c].req].status = status]
  /\ chains' = [chains EXCEPT
       ![c].pc = IF ResOk(status) THEN "predictJson" ELSE "predictText"]
  /\ UNCHANGED <<text, loading, error, result, copingText, page,
                 inflight, finished>>

\* await res.text() of a non-ok /predict response resolves, then the throw
PredictTextResolves(c, errorText) ==
  /\ chains[c].pc = "predictText"
  /\ Catch(c, ApiErrorMessage(requests[chains[c].req].status, errorText),
           "predictHttp", result)
  /\ UNCHANGED <<text, page, requests>>

\* await res.text() of a non-ok /predict response rejects
PredictTextRejects(c, m) ==
  /\ chains[c].pc = "predictText"
  /\ Catch(c, m, "predictThrown", result)
  /\ UNCHANGED <<text, page, requests>>

\* res.json() of an ok /predict response rejects
PredictJsonRejects(c, m) ==
  /\ chains[c].pc = "predictJson"
  /\ Catch(c, m, "predictThrown", result)
  /\ UNCHANGED <<text, page, requests>>

\* res.json() of an ok /predict response resolves: setResult(data), then
\* getCopingSuggestion({...}) up to its fetch
PredictJsonResolves(c, data) ==
  LET answered == [requests EXCEPT ![chains[c].req].resp = data] IN
  /\ chains[c].pc = "predictJson"
  /\ IF data = Null
     THEN \* setResult(null), then data.primary_emotion throws
          /\ Catch(c, NullDerefMsg, "predictThrown", data)
          /\ requests' = answered
     ELSE /\ result' = data
          /\ requests' = Append(answered,
               NewRequest(c, "/coping", CopingBody(JournalOf(c), data[1])))
          /\ inflight' = (inflight \ {chains[c].req}) \cup {Len(requests) + 1}
          /\ chains' = [chains EXCEPT ![c].pc = "copingFetch",
                                      ![c].req = Len(requests) + 1]
          /\ UNCHANGED <<loading, error, copingText, finished>>
  /\ UNCHANGED <<text, page>>

\* fetch(`${API_BASE_URL}/coping`, ...) rejects
CopingFetchRejects(c, m) ==
  /\ chains[c].pc = "copingFetch"
  /\ Catch(c, m, "copingThrown", result)
  /\ UNCHANGED <<text, page, requests>>

\* fetch(`${API_BASE_URL}/coping`, ...) resolves with a response
CopingFetchResolves(c, status) ==
  /\ chains[c].pc = "copingFetch"
  /\ requests' = [requests EXCEPT ![chains[c].req].status = status]
  /\ IF ResOk(status)
     THEN /\ chains' = [chains EXCEPT ![c].pc = "copingJson"]
          /\ UNCHANGED <<loading, error, result, copingText, inflight, finished>>
     ELSE Catch(c, CopingFailedMsg, "copingHttp", result)
  /\ UNCHANGED <<text, page>>

\* res.json() of an ok /coping response rejects
CopingJsonRejects(c, m) ==
  /\ chains[c].pc = "copingJson"
  /\ Catch(c, m, "copingThrown", result)
  /\ UNCHANGED <<text, page, requests>>

\* res.json() of an ok /coping response resolves: setCopingText, finally
CopingJsonResolves(c, coping) ==
  /\ chains[c].pc = "copingJson"
  /\ requests' = [requests EXCEPT ![chains[c].req].resp = coping]
  /\ IF coping = Null
     THEN \* coping.coping_text throws
          Catch(c, NullDerefMsg, "copingThrown", result)
     ELSE /\ copingText' = coping[1].coping_text
          /\ loading' = FALSE
          /\ chains' = [chains EXCEPT ![c].pc = "done", ![c].outcome = "ok"]
          /\ finished' = Append(finished, c)
          /\ inflight' = inflight \ {chains[c].req}
          /\ UNCHANGED <<error, result>>
  /\ UNCHANGED <<text, page>>

Next ==
  \/ \E t \in Texts : SetText(t)
  \/ \E p \in Pages : SetPage(p)
  \/ ClickAnalyze
  \/ \E c \in Ids, m \in RejectMessages : PredictFetchRejects(c, m)
  \/ \E c \in Ids, s \in Statuses : PredictFetchResolves(c, s)
  \/ \E c \in Ids, e \in ErrorTexts : PredictTextResolves(c, e)
  \/ \E c \in Ids, m \in RejectMessages : PredictTextRejects(c, m)
  \/ \E c \in Ids, m \in BodyRejectMessages : PredictJsonRejects(c, m)
  \/ \E c \in Ids, d \in PredictJsonBodies : PredictJsonResolves(c, d)
  \/ \E c \in Ids, m \in RejectMessages : CopingFetchRejects(c, m)
  \/ \E c \in Ids, s \in Statuses : CopingFetchResolves(c, s)
  \/ \E c \in Ids, m \in BodyRejectMessages : CopingJsonRejects(c, m)
  \/ \E c \in Ids, k \in CopingJsonBodies : CopingJsonResolves(c, k)

Spec == Init /\ [][Next]_vars

\* the same program when a duplicate event can reach the handler
NextBypass == Next \/ DuplicateSubmit

SpecBypass == Init /\ [][NextBypass]_vars

TypeOK ==
  /\ text \in Texts
  /\ loading \in BOOLEAN
  /\ error = Null \/ (Len(error) = 1 /\ error[1] # <<>>)
  /\ result \in PredictJsonBodies
  /\ page \in Pages
  /\ Len(chains) <= MaxOverlap
  /\ inflight \subseteq 1 .. Len(requests)

\* ---------------------------------------------------- reading the history
\* the text is empty or consists of whitespace only
IsBlank(s) == \A i \in 1 .. Len(s) : s[i] \in Whitespace

\* the requests invocation c has issued to url
ReqsOf(c, url) ==
  {i \in 1 .. Len(requests) : requests[i].chain = c /\ requests[i].url = url}

\* invocation c got an answer from url whose status is outside 200..299
GotNon2xx(c, url) ==
  \E i \in ReqsOf(c, url) :
    requests[i].status # 0 /\ (requests[i].status < 200 \/ requests[i].status > 299)

\* invocation c got a 2xx answer from url whose body parsed to an object
Succeeded(c, url) ==
  \E i \in ReqsOf(c, url) :
    requests[i].status \in 200 .. 299 /\ requests[i].resp # Null

\* the parsed body of that answer
ResponseOf(c, url) ==
  LET i == CHOOSE i \in ReqsOf(c, url) : TRUE IN requests[i].resp

Done(c) == chains[c].pc = "done"

\* invocation c has returned and no later invocation has started
LatestDone(c) == c = Len(chains) /\ Done(c)

\* the step starts an invocation of handleAnalyze: only such a step adds a
\* record to chains, or changes chains while the component is idle
SubmissionStep ==
  chains' # chains /\ (Active = {} \/ Len(chains') = Len(chains) + 1)
\* ------------------------------------------------------------ properties
\* C1: every submission whose text is not blank issues exactly one /predict
\* request, with body {text} of the text at submission time, ahead of any
\* /coping request of the submission, of which there is at most one.
C1_OnePredictBeforeCoping ==
  \A c \in Ids :
    ~IsBlank(chains[c].text) =>
      /\ Cardinality(ReqsOf(c, "/predict")) = 1
      /\ Cardinality(ReqsOf(c, "/coping")) <= 1
      /\ \A i \in ReqsOf(c, "/predict") :
           /\ requests[i].body = [text |-> chains[c].text]
           /\ \A j \in ReqsOf(c, "/coping") : i < j

C1_Witness ==
  \E c \in Ids :
    /\ chains[c].text = <<" ", "a">>
    /\ Cardinality(ReqsOf(c, "/coping")) = 1

\* C2: when /predict answers with a non-2xx status the submission issues no
\* /coping request and ends with error set, result null and loading false.
C2_PredictHttpError ==
  \A c \in Ids :
    GotNon2xx(c, "/predict") =>
      /\ ReqsOf(c, "/coping") = {}
      /\ LatestDone(c) => error # Null /\ result = Null /\ loading = FALSE

C2_Witness ==
  \E c \in Ids :
    /\ LatestDone(c)
    /\ GotNon2xx(c, "/predict")
    /\ error = Some(<<"API error ", "500", ": ", "Internal Server Error">>)

\* C3: when /predict succeeds and /coping answers with a non-2xx status the
\* submission ends with result the /predict response, copingText empty,
\* error set and loading false.
C3_CopingHttpError ==
  \A c \in Ids :
    (LatestDone(c) /\ Succeeded(c, "/predict") /\ GotNon2xx(c, "/coping")) =>
      /\ result = ResponseOf(c, "/predict")
      /\ copingText = ""
      /\ error # Null
      /\ loading = FALSE

C3_Witness ==
  \E c \in Ids :
    /\ LatestDone(c)
    /\ Succeeded(c, "/predict")
    /\ GotNon2xx(c, "/coping")
    /\ result # Null

\* C4: when both calls succeed the submission ends with result the /predict
\* response, copingText the coping_text of the /coping response, error null
\* and loading false, whatever the three fields held before it started.
C4_BothSucceed ==
  \A c \in Ids :
    (LatestDone(c) /\ Succeeded(c, "/predict") /\ Succeeded(c, "/coping")) =>
      /\ result = ResponseOf(c, "/predict")
      /\ copingText = ResponseOf(c, "/coping")[1].coping_text
      /\ error = Null
      /\ loading = FALSE

\* the second submission succeeds after a first one that ended with an error
C4_Witness ==
  \E c \in Ids :
    /\ chains[c].stale
    /\ LatestDone(c)
    /\ Succeeded(c, "/predict")
    /\ Succeeded(c, "/coping")
    /\ copingText = "Keep it up."
    /\ error = Null

\* C5: a submission of a blank text issues no request, sets the fixed
\* validation message, leaves result null and copingText empty, and does not
\* touch loading.
C5_BlankStep ==
  (SubmissionStep /\ IsBlank(text)) =>
     /\ \A i \in 1 .. Len(requests') : requests'[i].chain # Len(chains')
     /\ inflight' = inflight
     /\ error' = Some(<<"Please write a short journal entry first.">>)
     /\ result' = Null
     /\ copingText' = ""
     /\ loading' = loading

C5_BlankNeverRequests ==
  \A c \in Ids :
    IsBlank(chains[c].text) =>
      ReqsOf(c, "/predict") = {} /\ ReqsOf(c, "/coping") = {} /\ Done(c)

C5_BlankSubmission == []C5_BlankNeverRequests /\ [][C5_BlankStep]_vars

\* a whitespace-only submission that cleared the result of an earlier one
C5_Witness ==
  \E c \in Ids :
    /\ chains[c].stale
    /\ chains[c].text = <<" ">>
    /\ LatestDone(c)
    /\ result = Null
    /\ copingText = ""
    /\ loading = FALSE

\* C6: loading is true from the start of a non-blank submission until its
\* last call has settled, and false once it has.
C6_LoadingWhileActive ==
  /\ \A c \in Ids : ~Done(c) => loading = TRUE
  /\ \A c \in Ids : LatestDone(c) => loading = FALSE

C6_Witness ==
  \E c \in Ids :
    /\ LatestDone(c)
    /\ chains[c].outcome \in {"predictThrown", "copingThrown"}
    /\ requests # <<>>
    /\ loading = FALSE

\* C7: with submissions started through the submit control only, at most one
\* request is in flight and at most one submission is unfinished.
C7_OneInFlight ==
  /\ Cardinality(inflight) <= 1
  /\ Cardinality(Active) <= 1

\* a submission that follows a finished one has its second call in flight
C7_Witness ==
  \E c \in Ids :
    /\ chains[c].stale
    /\ chains[c].pc = "copingFetch"
    /\ Len(requests) = 2
    /\ inflight = {2}

ThrownOutcomes == {"predictThrown", "copingThrown"}

\* C8 as stated: a thrown condition other than a non-2xx status ends the
\* submission with the generic message.
C8_AlwaysGeneric ==
  \A c \in Ids :
    (LatestDone(c) /\ chains[c].outcome \in ThrownOutcomes) =>
      error = Some(<<"Something went wrong. Please try again.">>)

\* C8 amended: such a condition ends the submission with its own message,
\* and with the generic message only when its message is empty.
C8_OwnMessageOrGeneric ==
  \A c \in Ids :
    (LatestDone(c) /\ chains[c].outcome \in ThrownOutcomes) =>
      /\ chains[c].err # <<>> => error = Some(chains[c].err)
      /\ chains[c].err = <<>> =>
           error = Some(<<"Something went wrong. Please try again.">>)

C8_Witness ==
  \E c \in Ids :
    /\ LatestDone(c)
    /\ chains[c].outcome = "copingThrown"
    /\ chains[c].err = <<"Failed to fetch">>
    /\ error = Some(<<"Failed to fetch">>)

\* what invocation c leaves in error, result and copingText when it runs alone
AloneError(c) ==
  CASE chains[c].outcome = "invalid" ->
         Some(<<"Please write a short journal entry first.">>)
    [] chains[c].outcome = "ok" -> Null
    [] OTHER ->
         Some(IF chains[c].err # <<>> THEN chains[c].err
              ELSE <<"Something went wrong. Please try again.">>)

AloneResult(c) ==
  IF ReqsOf(c, "/predict") = {} THEN Null ELSE ResponseOf(c, "/predict")

AloneCopingText(c) ==
  IF chains[c].outcome = "ok" THEN ResponseOf(c, "/coping")[1].coping_text ELSE ""

SomeOverlap == \E c \in Ids : chains[c].overlapped

LastFinished == finished[Len(finished)]

\* C9 as stated: with overlapping submissions loading stays true until the
\* last one has finished, and the three fields are then what the one that
\* finished last produces on its own.
C9_LaterChainWins ==
  SomeOverlap =>
    /\ Active # {} => loading = TRUE
    /\ Active = {} =>
         /\ loading = FALSE
         /\ error = AloneError(LastFinished)
         /\ result = AloneResult(LastFinished)
         /\ copingText = AloneCopingText(LastFinished)

\* the step ends an invocation that had reached setLoading(true): it returns
\* through the finally block (a blank submission returns before the try)
FinallyStep ==
  /\ Len(finished') = Len(finished) + 1
  /\ chains'[finished'[Len(finished')]].outcome # "invalid"

\* C9 amended, the final state: once the overlapping submissions have all
\* finished loading is false and the last write of the one that finished
\* last stands (copingText is its coping_text when it succeeded, error its
\* message when it failed); each field holds its cleared value or what one
\* of the submissions wrote.
C9_LastWriteStands ==
  (SomeOverlap /\ Active = {}) =>
    /\ loading = FALSE
    /\ chains[LastFinished].outcome = "ok" =>
         copingText = AloneCopingText(LastFinished)
    /\ chains[LastFinished].outcome # "ok" =>
         error = AloneError(LastFinished)
    /\ result \in {Null} \cup {AloneResult(c) : c \in Ids}
    /\ error \in {Null} \cup {AloneError(c) : c \in Ids}
    /\ copingText \in {""} \cup {AloneCopingText(c) : c \in Ids}

\* C9 amended, loading: every submission that reached setLoading(true) sets
\* loading to false in the step it finishes, whether or not another
\* submission is still in flight.
C9_FinishClearsLoading == FinallyStep => loading' = FALSE

\* C9 amended: with overlapping submissions the writes interleave; the last
\* write of the later-finishing one stands, and loading is cleared by
\* whichever non-blank submission finishes, not only by the last one.
C9_InterleavedWrites ==
  []C9_LastWriteStands /\ [][C9_FinishClearsLoading]_vars

\* both finished, the first while the second was in flight (the second was
\* started during the first and outlived it), and the fields mix the two
C9_Witness ==
  /\ finished = <<1, 2>>
  /\ chains[2].overlapped
  /\ Active = {}
  /\ chains[1].outcome = "copingHttp"
  /\ chains[2].outcome = "ok"
  /\ copingText = AloneCopingText(2)
  /\ result = AloneResult(1)
  /\ result # AloneResult(2)
  /\ error = AloneError(1)
  /\ loading = FALSE

\* C10: a /coping request carries the text of its submission's /predict
\* request and the two fields of that request's response, and a step that
\* edits the text or switches the page changes none of loading, error,
\* result, copingText.
C10_CopingBodyFromSubmission ==
  \A j \in 1 .. Len(requests) :
    requests[j].url = "/coping" =>
      \A i \in ReqsOf(requests[j].chain, "/predict") :
        /\ requests[j].body.journal = requests[i].body.text
        /\ requests[i].resp # Null
        /\ requests[j].body.primary_emotion = requests[i].resp[1].primary_emotion
        /\ requests[j].body.stress_level = requests[i].resp[1].stress_level

C10_EditOrSwitchStep ==
  (text' # text \/ page' # page) =>
     UNCHANGED <<loading, error, result, copingText>>

C10_CopingRequest == []C10_CopingBodyFromSubmission /\ [][C10_EditOrSwitchStep]_vars

\* the text was edited and the page switched while the /coping call is pending
C10_Witness ==
  \E c \in Ids :
    /\ chains[c].pc = "copingFetch"
    /\ chains[c].text = <<"a">>
    /\ text = <<"a", "a">>
    /\ page = "about"
    /\ requests[chains[c].req].body.journal = <<"a">>
====
